---- MODULE Spec2Model ----
(***************************************************************************)
(* Model of azure-permission-audit: the batch synchronisation of Azure     *)
(* subscriptions, role assignments and principals into a Neo4j property    *)
(* graph (src/main.py), and the per-object writers of src/models/.         *)
(*                                                                         *)
(* The graph store is modelled by what the Cypher clauses the code sends   *)
(* do: nodes and relationships have an identity of their own (their        *)
(* position in db.nodes / db.edges), MATCH selects by label and the        *)
(* properties written in the pattern, MERGE matches the whole pattern or   *)
(* creates it, a uniqueness constraint rejects a second node with the same *)
(* label and id, and a failed statement rolls its transaction back.        *)
(***************************************************************************)
EXTENDS Integers, Sequences, FiniteSets, TLC

----------------------------------------------------------------------------
(* Bounds of the model *)

\* at most this many role assignments in the source, over all subscriptions
MaxAssignments == 2

\* at most this many calls of the writers on one store
MaxCalls == 3

----------------------------------------------------------------------------
(* Universes the inputs are drawn from *)

SubscriptionIds == {"sub1", "sub2"}
AssignmentIds == {"a1", "a2"}
RoleIds == {"r1", "r2"}
PrincipalIds == {"p1", "p2"}
\* principal_type tags of the role-assignment API
Tags == {"User", "Group", "ServicePrincipal"}
\* the same, with other spellings of the two recognized tags
SpelledTags ==
    {"User", "user", "USER", "Group", "group", "GROUP", "ServicePrincipal"}

\* a property a relationship or node does not carry
Absent == "<absent>"

\* class Node(StrEnum)
SUBSCRIPTION == "SUBSCRIPTION"
GROUP == "GROUP"
USER == "USER"
\* class Relation(StrEnum), and the MEMBER_OF type of models/principals.py
ASSIGNMENT == "ASSIGNMENT"
MEMBER_OF == "MEMBER_OF"

Labels == {SUBSCRIPTION, GROUP, USER}

----------------------------------------------------------------------------
(* The graph store: Cypher clauses as the code writes them *)

EmptyDb == [nodes |-> <<>>, edges |-> <<>>, constraints |-> {}, failed |-> FALSE]

\* MATCH (n:<label> {id: '<id>'})
MatchNode(db, label, id) ==
    {i \in DOMAIN db.nodes : db.nodes[i].label = label /\ db.nodes[i].id = id}

\* the match half of MERGE (:<label> {id: '<id>', name: '<name>'})
MatchNodeFull(db, label, id, name) ==
    {i \in DOMAIN db.nodes :
        db.nodes[i] = [label |-> label, id |-> id, name |-> name]}

\* MERGE (:<label> {id: '<id>', name: '<name>'}): the node matching label, id
\* and name, or a new one; a new one with an id the label's uniqueness
\* constraint already holds fails the statement.
MergeNode(db, label, id, name) ==
    IF db.failed THEN db
    ELSE IF MatchNodeFull(db, label, id, name) # {} THEN db
    ELSE IF label \in db.constraints /\ MatchNode(db, label, id) # {}
         THEN [db EXCEPT !.failed = TRUE]
    ELSE [db EXCEPT !.nodes =
              Append(@, [label |-> label, id |-> id, name |-> name])]

\* MatchEdge with the relationship matched into n from any node
MatchEdgeAnySource(db, s, n, type, id, role_id) ==
    {k \in DOMAIN db.edges :
        /\ db.edges[k].dst = n
        /\ db.edges[k].type = type
        /\ db.edges[k].id = id /\ db.edges[k].role_id = role_id}

\* MatchEdge with the relationship matched on its id alone
MatchEdgeById(db, s, n, type, id, role_id) ==
    {k \in DOMAIN db.edges :
        /\ db.edges[k].src = s /\ db.edges[k].dst = n
        /\ db.edges[k].type = type
        /\ db.edges[k].id = id}

\* relationships of <type> from node s to node n carrying {id, role_id}
MatchEdge(db, s, n, type, id, role_id) ==
    {k \in DOMAIN db.edges :
        /\ db.edges[k].src = s /\ db.edges[k].dst = n
        /\ db.edges[k].type = type
        /\ db.edges[k].id = id /\ db.edges[k].role_id = role_id}

NewEdge(s, n, type, id, role_id) ==
    [src |-> s, dst |-> n, type |-> type, id |-> id, role_id |-> role_id,
     role_name |-> Absent]

\* MergeEdgeRow with CREATE in the place of MERGE
CreateEdgeRow(db, s, n, type, id, role_id) ==
    [db EXCEPT !.edges = Append(@, NewEdge(s, n, type, id, role_id))]

\* MERGE (s)-[:<type> {id, role_id}]->(n) for one bound row (s, n)
MergeEdgeRow(db, s, n, type, id, role_id) ==
    IF MatchEdge(db, s, n, type, id, role_id) # {} THEN db
    ELSE [db EXCEPT !.edges = Append(@, NewEdge(s, n, type, id, role_id))]

\* the MERGE of a relationship applied to every row the MATCH clauses bound
RECURSIVE MergeEdgeRows(_, _, _, _, _)
MergeEdgeRows(db, rows, type, id, role_id) ==
    IF rows = {} THEN db
    ELSE LET r == CHOOSE x \in rows : TRUE
         IN  MergeEdgeRows(MergeEdgeRow(db, r[1], r[2], type, id, role_id),
                           rows \ {r}, type, id, role_id)

\* MATCH (s:SUBSCRIPTION {id}) MATCH (n:<label> {id})
\* MERGE (s)-[r:ASSIGNMENT {id, role_id}]->(n)
MergeAssignmentEdge(db, sub_id, label, principal_id, id, role_id) ==
    IF db.failed THEN db
    ELSE MergeEdgeRows(db,
             MatchNode(db, SUBSCRIPTION, sub_id)
                 \X MatchNode(db, label, principal_id),
             ASSIGNMENT, id, role_id)

\* MATCH (:SUBSCRIPTION {id})-[r:ASSIGNMENT {id, role_id}]-(:<label> {id})
\* SET r.role_name = '<role_name>'   (the pattern has no direction)
SetRoleName(db, sub_id, id, role_id, label, principal_id, role_name) ==
    IF db.failed THEN db
    ELSE LET S == MatchNode(db, SUBSCRIPTION, sub_id)
             N == MatchNode(db, label, principal_id)
             hit(e) == /\ e.type = ASSIGNMENT
                       /\ e.id = id /\ e.role_id = role_id
                       /\ \/ e.src \in S /\ e.dst \in N
                          \/ e.src \in N /\ e.dst \in S
         IN  [db EXCEPT !.edges =
                 [k \in DOMAIN @ |->
                     IF hit(@[k]) THEN [@[k] EXCEPT !.role_name = role_name]
                     ELSE @[k]]]

\* a transaction function's outcome: its writes, or the store as it was when a
\* statement failed (rollback)
Commit(old, new) == IF new.failed THEN old ELSE new

----------------------------------------------------------------------------
(* The sources: subscription listing, role-assignment listing, directory *)

\* subscription.id as the listing returns it, as its "/"-separated segments
SubscriptionPath(guid) == <<"subscriptions", guid>>

\* SubscriptionNode.clean_id: self.id.split("/")[-1]
clean_id(id) == id[Len(id)]

\* client.subscriptions.list(): the subscriptions of the tenant
ListedSubscriptions ==
    << [id |-> SubscriptionPath("sub1"), name |-> "Prod"],
       [id |-> SubscriptionPath("sub2"), name |-> "Dev"] >>

\* display_name of a principal in the directory
DisplayName(id) == IF id = "p1" THEN "Admins" ELSE "Alice"

\* role_name of a role definition
RoleNameOf(role_id) == IF role_id = "r1" THEN "Owner" ELSE "Reader"

\* the items of client.role_assignments.list_for_subscription()
RawAssignments(subs, ids, roles, principals, tags) ==
    [sub : subs, id : ids, role_definition_id : roles,
     principal_id : principals, principal_type : tags]

\* the failure a source call meets: none, the assignment listing of one
\* subscription, the directory lookup of one principal (NotFound), the lookup
\* of one role definition (NotFound)
Faults ==
    {[kind |-> "none", unit |-> Absent]}
    \cup [kind : {"list"}, unit : SubscriptionIds]
    \cup [kind : {"name"}, unit : PrincipalIds]
    \cup [kind : {"role"}, unit : RoleIds]

\* the subsets of S with at most n elements
RECURSIVE SubsetsUpTo(_, _)
SubsetsUpTo(S, n) ==
    IF n = 0 THEN {{}}
    ELSE LET smaller == SubsetsUpTo(S, n - 1)
         IN  smaller \cup {T \cup {x} : T \in smaller, x \in S}

\* the sequences that list each element of the finite set S once
RECURSIVE Orderings(_)
Orderings(S) ==
    IF S = {} THEN {<<>>}
    ELSE UNION {{<<x>> \o t : t \in Orderings(S \ {x})} : x \in S}

\* a response listed in one fixed order
RECURSIVE Listed(_)
Listed(S) ==
    IF S = {} THEN <<>>
    ELSE LET x == CHOOSE y \in S : TRUE IN <<x>> \o Listed(S \ {x})

VARIABLES
    srcAssignments,   \* source: the role assignments, over all subscriptions
    fault,            \* source: the failing call, if any
    emptyQueryFails,  \* store: whether it rejects an empty statement
    db,               \* the graph store
    run,              \* 1: first run of main(), 2: the run after it
    pc,               \* the stage main() is about to execute
    idx,              \* main(): position of the subscription loop
    abortCause,       \* the exception that ended main(), if one did
    subscriptions,    \* main(): subscriptions
    assignments,      \* main(): assignments
    groups,           \* main(): groups
    users,            \* main(): users
    stagesDone,       \* history: the stages this run has completed, in order
    nodesWritten,     \* history: (label, id) of the nodes this run has merged
    edgesWritten,     \* history: the ASSIGNMENT edges this run has merged
    after1,           \* history: the store as the first run left it
    directory,        \* source: the members the directory lists per group
    stack,            \* expansion: the groups still to expand
    visited,          \* expansion: the groups expanded or being expanded
    expansions,       \* history: the groups expanded, in order
    calls,            \* writers: the number of calls made
    lastCall          \* history: the last writer call and whether it failed

vars == <<srcAssignments, fault, emptyQueryFails, db, run, pc, idx,
          abortCause, subscriptions, assignments, groups, users, stagesDone,
          nodesWritten, edgesWritten, after1, directory, stack, visited,
          expansions, calls, lastCall>>

expansion == <<directory, stack, visited, expansions>>
writers == <<calls, lastCall>>

source == <<srcAssignments, fault, emptyQueryFails>>
memory == <<subscriptions, assignments, groups, users>>
history == <<stagesDone, nodesWritten, edgesWritten>>

----------------------------------------------------------------------------
(* src/main.py *)

\* MainOrder with the assignments recorded before the principals
MainOrderEdgesFirst ==
    << "verify_connectivity", "apply_constraints",
       "build_subscription_nodes", "record_subscriptions",
       "build_assignment_relations", "record_assignments",
       "build_group_nodes", "record_groups",
       "build_user_nodes", "record_users",
       "update_role_name_records" >>

\* main(): the stages in the order the function body runs them
MainOrder ==
    << "verify_connectivity", "apply_constraints",
       "build_subscription_nodes", "record_subscriptions",
       "build_assignment_relations",
       "build_group_nodes", "record_groups",
       "build_user_nodes", "record_users",
       "record_assignments", "update_role_name_records" >>

\* the stage main() runs after `stage`, "done" after the last
StageAfter(stage) ==
    LET k == CHOOSE j \in DOMAIN MainOrder : MainOrder[j] = stage
    IN  IF k = Len(MainOrder) THEN "done" ELSE MainOrder[k + 1]

\* Assignment.principal_node_type
principal_node_type(principal_type) ==
    CASE principal_type = "Group" -> GROUP
      [] principal_type = "User" -> USER
      [] OTHER -> Absent

\* a type tag in lower case
Lower(tag) ==
    CASE tag \in {"User", "user", "USER"} -> "user"
      [] tag \in {"Group", "group", "GROUP"} -> "group"
      [] tag = "ServicePrincipal" -> "serviceprincipal"

\* IsKept with every item kept
IsKeptAlways(principal_type) == TRUE

\* IsKept with the tag compared in lower case
IsKeptAnyCase(principal_type) == Lower(principal_type) \in {"group", "user"}

\* build_assignment_relations: the test an item passes to be kept
IsKept(principal_type) ==
    ~(principal_type # "Group" /\ principal_type # "User")

\* build_assignment_relations: the Assignment built from a kept item
AssignmentOf(subscription_node, item) ==
    [id |-> item.id,
     subscription_id |-> subscription_node.id,
     role_id |-> item.role_definition_id,
     principal_id |-> item.principal_id,
     principal_type |-> item.principal_type,
     role_name |-> ""]

\* build_assignment_relations(subscription_node), the listing having answered
build_assignment_relations(subscription_node) ==
    LET response == Listed({r \in srcAssignments :
                               r.sub = clean_id(subscription_node.id)})
        kept == SelectSeq(response, LAMBDA r : IsKept(r.principal_type))
    IN  [k \in DOMAIN kept |-> AssignmentOf(subscription_node, kept[k])]

\* unique([a.principal_id for a in assignments if a.principal_type == tag]),
\* as a set: the list it returns is in the set's iteration order
unique_ids(tag) ==
    {assignments[k].principal_id :
        k \in {j \in DOMAIN assignments : assignments[j].principal_type = tag}}

\* the MERGE clauses of record_subscriptions / record_groups / record_users
RECURSIVE MergeNodes(_, _, _)
MergeNodes(d, label, items) ==
    IF items = <<>> THEN d
    ELSE MergeNodes(MergeNode(d, label, Head(items).id, Head(items).name),
                    label, Tail(items))

\* tx.run(query) of the record_* functions: the query is the empty string when
\* there is nothing to record
RunNodeQuery(d, label, items) ==
    IF items = <<>>
    THEN [d EXCEPT !.failed = emptyQueryFails]
    ELSE MergeNodes(d, label, items)

\* record_assignments: one statement per assignment
RECURSIVE RecordAssignmentEdges(_, _)
RecordAssignmentEdges(d, items) ==
    IF items = <<>> THEN d
    ELSE LET a == Head(items)
             t == principal_node_type(a.principal_type)
         IN  RecordAssignmentEdges(
                 IF t = Absent THEN d
                 ELSE MergeAssignmentEdge(d, a.subscription_id, t,
                                          a.principal_id, a.id, a.role_id),
                 Tail(items))

\* update_role_name_records: the assignments before the first whose
\* fetch_role_name raises (all of them when none does)
RoleFails(a) ==
    /\ principal_node_type(a.principal_type) # Absent
    /\ fault = [kind |-> "role", unit |-> a.role_id]

RECURSIVE UpdateRoleNames(_, _)
UpdateRoleNames(d, items) ==
    IF items = <<>> THEN d
    ELSE LET a == Head(items)
             t == principal_node_type(a.principal_type)
         IN  IF t = Absent THEN UpdateRoleNames(d, Tail(items))
             ELSE IF RoleFails(a) THEN [d EXCEPT !.failed = TRUE]
             ELSE UpdateRoleNames(
                      SetRoleName(d, a.subscription_id, a.id, a.role_id, t,
                                  a.principal_id, RoleNameOf(a.role_id)),
                      Tail(items))

\* the key of the ASSIGNMENT edge an assignment is recorded as
EdgeKey(a) ==
    [sub |-> a.subscription_id,
     label |-> principal_node_type(a.principal_type),
     principal |-> a.principal_id, id |-> a.id, role_id |-> a.role_id]

\* a stage completes and main() goes on to the next
Advance(stage) ==
    /\ pc' = StageAfter(stage)
    /\ stagesDone' = Append(stagesDone, stage)
    /\ abortCause' = abortCause

\* an exception leaves main()
Abort(cause) ==
    /\ pc' = "aborted"
    /\ abortCause' = cause
    /\ stagesDone' = stagesDone

NodeKeys(label, items) ==
    {[label |-> label, id |-> items[k].id] : k \in DOMAIN items}

\* driver.verify_connectivity(); exit(1) when it raises
VerifyConnectivity ==
    /\ pc = "verify_connectivity"
    /\ \E up \in BOOLEAN :
          IF up THEN Advance("verify_connectivity")
          ELSE /\ pc' = "exit1"
               /\ abortCause' = "connectivity"
               /\ stagesDone' = stagesDone
    /\ UNCHANGED <<expansion, writers, source,
                   db, run, idx, memory, nodesWritten, edgesWritten,
                   after1>>

\* apply_constraints(session): each CREATE CONSTRAINT either succeeds or is
\* refused because the constraint is there; the refusal is swallowed
ApplyConstraints ==
    /\ pc = "apply_constraints"
    /\ db' = [db EXCEPT !.constraints = {SUBSCRIPTION, GROUP, USER}]
    /\ Advance("apply_constraints")
    /\ UNCHANGED <<expansion, writers, source,
                   run, idx, memory, nodesWritten, edgesWritten,
                   after1>>

\* subscriptions = build_subscription_nodes()
BuildSubscriptionNodes ==
    /\ pc = "build_subscription_nodes"
    /\ subscriptions' = ListedSubscriptions
    /\ Advance("build_subscription_nodes")
    /\ UNCHANGED <<expansion, writers, source,
                   db, run, idx, assignments, groups, users,
                   nodesWritten, edgesWritten, after1>>

\* session.execute_write(record_<label>s, items)
RecordNodes(stage, label, items) ==
    LET d == RunNodeQuery(db, label, items)
    IN  /\ pc = stage
        /\ IF d.failed
           THEN /\ Abort(IF items = <<>> THEN "empty_query" ELSE "constraint")
                /\ UNCHANGED <<db, nodesWritten>>
           ELSE /\ db' = d
                /\ nodesWritten' = nodesWritten \cup NodeKeys(label, items)
                /\ Advance(stage)
        /\ UNCHANGED <<expansion, writers, source,
                   run, idx, memory, edgesWritten, after1>>

RecordSubscriptions ==
    RecordNodes("record_subscriptions", SUBSCRIPTION, subscriptions)

\* for subscription in subscriptions:
\*     assignments.extend(build_assignment_relations(subscription))
BuildAssignmentRelations ==
    /\ pc = "build_assignment_relations"
    /\ IF idx > Len(subscriptions)
       THEN /\ Advance("build_assignment_relations")
            /\ UNCHANGED <<assignments, idx>>
       ELSE IF fault = [kind |-> "list",
                        unit |-> clean_id(subscriptions[idx].id)]
       THEN /\ Abort("list_failed")
            /\ UNCHANGED <<assignments, idx>>
       ELSE /\ assignments' =
                   assignments \o build_assignment_relations(subscriptions[idx])
            /\ idx' = idx + 1
            /\ UNCHANGED <<pc, abortCause, stagesDone>>
    /\ UNCHANGED <<expansion, writers, source,
                   db, run, subscriptions, groups, users, nodesWritten,
                   edgesWritten, after1>>

\* build_group_nodes / build_user_nodes: a node per id, its name fetched
NamedNodes(ids) ==
    [k \in DOMAIN ids |-> [id |-> ids[k], name |-> DisplayName(ids[k])]]

NameFails(ids) ==
    \E k \in DOMAIN ids : fault = [kind |-> "name", unit |-> ids[k]]

\* group_ids = unique([...]); groups = await build_group_nodes(group_ids)
BuildGroupNodes ==
    /\ pc = "build_group_nodes"
    /\ \E group_ids \in Orderings(unique_ids("Group")) :
          IF NameFails(group_ids)
          THEN Abort("name_not_found") /\ UNCHANGED groups
          ELSE groups' = NamedNodes(group_ids) /\ Advance("build_group_nodes")
    /\ UNCHANGED <<expansion, writers, source,
                   db, run, idx, subscriptions, assignments, users,
                   nodesWritten, edgesWritten, after1>>

RecordGroups == RecordNodes("record_groups", GROUP, groups)

\* user_ids = unique([...]); users = await build_user_nodes(user_ids)
BuildUserNodes ==
    /\ pc = "build_user_nodes"
    /\ \E user_ids \in Orderings(unique_ids("User")) :
          IF NameFails(user_ids)
          THEN Abort("name_not_found") /\ UNCHANGED users
          ELSE users' = NamedNodes(user_ids) /\ Advance("build_user_nodes")
    /\ UNCHANGED <<expansion, writers, source,
                   db, run, idx, subscriptions, assignments, groups,
                   nodesWritten, edgesWritten, after1>>

RecordUsers == RecordNodes("record_users", USER, users)

\* the assignments whose MATCH clauses bind a row: their edge is merged
Bound(d, a) ==
    /\ principal_node_type(a.principal_type) # Absent
    /\ MatchNode(d, SUBSCRIPTION, a.subscription_id) # {}
    /\ MatchNode(d, principal_node_type(a.principal_type), a.principal_id) # {}

\* session.execute_write(record_assignments, assignments)
RecordAssignments ==
    /\ pc = "record_assignments"
    /\ db' = Commit(db, RecordAssignmentEdges(db, assignments))
    /\ edgesWritten' = edgesWritten \cup
           {EdgeKey(assignments[k]) :
               k \in {j \in DOMAIN assignments : Bound(db, assignments[j])}}
    /\ Advance("record_assignments")
    /\ UNCHANGED <<expansion, writers, source,
                   run, idx, memory, nodesWritten, after1>>

\* session.execute_write(update_role_name_records, assignments);
\* fetch_role_name sets assignment.role_name before the statement is run
UpdateRoleNameRecords ==
    LET d == UpdateRoleNames(db, assignments)
        firstFail ==
            IF \E k \in DOMAIN assignments : RoleFails(assignments[k])
            THEN CHOOSE k \in DOMAIN assignments :
                     /\ RoleFails(assignments[k])
                     /\ \A j \in 1..(k - 1) : ~RoleFails(assignments[j])
            ELSE Len(assignments) + 1
    IN  /\ pc = "update_role_name_records"
        /\ assignments' =
               [k \in DOMAIN assignments |->
                   IF /\ k < firstFail
                      /\ principal_node_type(assignments[k].principal_type)
                             # Absent
                   THEN [assignments[k] EXCEPT
                            !.role_name = RoleNameOf(assignments[k].role_id)]
                   ELSE assignments[k]]
        /\ IF d.failed
           THEN Abort("role_not_found") /\ UNCHANGED db
           ELSE db' = d /\ Advance("update_role_name_records")
        /\ UNCHANGED <<expansion, writers, source,
                   run, idx, subscriptions, groups, users,
                       nodesWritten, edgesWritten, after1>>

\* main() is run again on the store the first run left, the sources unchanged
StartSecondRun ==
    /\ run = 1
    /\ pc \in {"done", "aborted"}
    /\ run' = 2
    /\ after1' = db
    /\ pc' = MainOrder[1]
    /\ idx' = 1
    /\ abortCause' = Absent
    /\ subscriptions' = <<>>
    /\ assignments' = <<>>
    /\ groups' = <<>>
    /\ users' = <<>>
    /\ stagesDone' = <<>>
    /\ nodesWritten' = {}
    /\ edgesWritten' = {}
    /\ UNCHANGED <<expansion, writers, source,
                   db>>

\* no membership expansion is under way and no writer has been called
NoExpansion ==
    /\ directory = <<>>
    /\ stack = <<>>
    /\ visited = {}
    /\ expansions = <<>>

NoCalls ==
    /\ calls = 0
    /\ lastCall = [op |-> Absent, failed |-> FALSE]

\* main() is started on an empty store
Start ==
    /\ NoExpansion
    /\ NoCalls
    /\ db = EmptyDb
    /\ run = 1
    /\ pc = MainOrder[1]
    /\ idx = 1
    /\ abortCause = Absent
    /\ subscriptions = <<>>
    /\ assignments = <<>>
    /\ groups = <<>>
    /\ users = <<>>
    /\ stagesDone = <<>>
    /\ nodesWritten = {}
    /\ edgesWritten = {}
    /\ after1 = EmptyDb

Init ==
    /\ srcAssignments \in
           SubsetsUpTo(RawAssignments(SubscriptionIds, AssignmentIds, RoleIds,
                                      PrincipalIds, Tags), MaxAssignments)
    /\ fault \in Faults
    /\ emptyQueryFails \in BOOLEAN
    /\ Start

\* the sources answer every call; the tags come in every spelling
InitTags ==
    /\ srcAssignments \in
           SubsetsUpTo(RawAssignments({"sub1"}, {"a1"}, {"r1"}, PrincipalIds,
                                      SpelledTags), MaxAssignments)
    /\ fault = [kind |-> "none", unit |-> Absent]
    /\ emptyQueryFails = FALSE
    /\ Start

Next ==
    \/ VerifyConnectivity
    \/ ApplyConstraints
    \/ BuildSubscriptionNodes
    \/ RecordSubscriptions
    \/ BuildAssignmentRelations
    \/ BuildGroupNodes
    \/ RecordGroups
    \/ BuildUserNodes
    \/ RecordUsers
    \/ RecordAssignments
    \/ UpdateRoleNameRecords
    \/ StartSecondRun

Spec == Init /\ [][Next]_vars

TagSpec == InitTags /\ [][Next]_vars

----------------------------------------------------------------------------
(* src/models/principals.py, src/models/subscriptions.py: the writers *)

\* class PrincipalType(StrEnum)
PrincipalType == {"User", "Group"}

\* Subscription.fetch_assignments: the test an item passes to be kept,
\* i.principal_type in [t for t in PrincipalType]
fetch_assignments_keeps(principal_type) == principal_type \in PrincipalType

\* self.principal_type.upper()
upper(principal_type) == IF principal_type = "Group" THEN GROUP ELSE USER

\* PrincipalInterface.merge_record: nothing when a node of the type has the
\* id, MERGE (:<TYPE> {id, name}) otherwise
merge_record(d, principal_type, identifier, name) ==
    IF MatchNode(d, upper(principal_type), identifier) # {} THEN d
    ELSE Commit(d, MergeNode(d, upper(principal_type), identifier, name))

\* PrincipalInterface.update_record_name:
\* MATCH (n:<TYPE> {id}) SET n.name = '<name>'
update_record_name(d, principal_type, identifier, name) ==
    LET N == MatchNode(d, upper(principal_type), identifier)
    IN  [d EXCEPT !.nodes =
            [i \in DOMAIN @ |->
                IF i \in N THEN [@[i] EXCEPT !.name = name] ELSE @[i]]]

\* merge_member_record with the relationship drawn from the group to the member
merge_member_record_reversed(d, identifier, member_type, member_identifier) ==
    MergeEdgeRows(d,
        MatchNode(d, GROUP, identifier)
            \X MatchNode(d, upper(member_type), member_identifier),
        MEMBER_OF, Absent, Absent)

\* GroupPrincipal.merge_member_record:
\* MATCH (g:GROUP {id}) MATCH (n:<TYPE> {id}) MERGE (n)-[:MEMBER_OF]->(g)
merge_member_record(d, identifier, member_type, member_identifier) ==
    MergeEdgeRows(d,
        MatchNode(d, upper(member_type), member_identifier)
            \X MatchNode(d, GROUP, identifier),
        MEMBER_OF, Absent, Absent)

\* the names a writer is called with: none yet, or the directory's
WriterNames(id) == {"", DisplayName(id)}

\* a writer is called on the store
Called ==
    /\ pc = "writers"
    /\ calls < MaxCalls
    /\ calls' = calls + 1
    /\ UNCHANGED <<expansion, source, run, pc, idx, abortCause, memory,
                   history, after1>>

\* principal.merge_record(session)
PrincipalMergeRecord ==
    /\ Called
    /\ \E t \in PrincipalType : \E id \in PrincipalIds :
       \E name \in WriterNames(id) :
          /\ db' = merge_record(db, t, id, name)
          /\ lastCall' = [op |-> "merge_record", failed |-> FALSE]

\* principal.update_record_name(session)
PrincipalUpdateRecordName ==
    /\ Called
    /\ \E t \in PrincipalType : \E id \in PrincipalIds :
       \E name \in WriterNames(id) :
          /\ db' = update_record_name(db, t, id, name)
          /\ lastCall' = [op |-> "update_record_name", failed |-> FALSE]

\* session.execute_write(record_groups, [node]) and
\* session.execute_write(record_users, [node]) of src/main.py
RecordPrincipal ==
    /\ Called
    /\ \E label \in {GROUP, USER} : \E id \in PrincipalIds :
       \E name \in WriterNames(id) :
          LET d == RunNodeQuery(db, label, <<[id |-> id, name |-> name]>>)
          IN  /\ db' = Commit(db, d)
              /\ lastCall' = [op |-> "record", failed |-> d.failed]

\* the writers called on one store, in any order
WriterNext ==
    \/ PrincipalMergeRecord
    \/ PrincipalUpdateRecordName
    \/ RecordPrincipal

\* the pipeline of main() is not running
NoRun ==
    /\ srcAssignments = {}
    /\ fault = [kind |-> "none", unit |-> Absent]
    /\ emptyQueryFails = FALSE
    /\ run = 1
    /\ idx = 1
    /\ abortCause = Absent
    /\ subscriptions = <<>>
    /\ assignments = <<>>
    /\ groups = <<>>
    /\ users = <<>>
    /\ stagesDone = <<>>
    /\ nodesWritten = {}
    /\ edgesWritten = {}
    /\ after1 = EmptyDb

\* an empty store, with the uniqueness constraints of apply_constraints or,
\* when the store refused them, without
WriterInit ==
    /\ NoRun
    /\ NoExpansion
    /\ NoCalls
    /\ pc = "writers"
    /\ \E c \in {{}, {SUBSCRIPTION, GROUP, USER}} :
          db = [EmptyDb EXCEPT !.constraints = c]

WriterSpec == WriterInit /\ [][WriterNext]_vars

----------------------------------------------------------------------------
(* Membership expansion *)

GroupIds == {"g1", "g2", "g3"}
\* the objects a group may list as members: groups, a user, a device
MemberIds == GroupIds \cup {"u1", "d1"}

\* the class msgraph gives a listed member
KindOf(id) ==
    CASE id \in GroupIds -> "Group"
      [] id = "u1" -> "User"
      [] OTHER -> "Device"

\* display_name of a listed member
MemberName(id) == IF id \in GroupIds THEN "Team" ELSE "Bob"

\* the group the expansion starts from
RootGroup == "g1"

\* GroupPrincipal.fetch_members: a GroupPrincipal per Group, a UserPrincipal
\* per User, nothing for any other object
fetch_members(identifier) ==
    LET value == Listed(directory[identifier])
        kept == SelectSeq(value, LAMBDA v : KindOf(v) \in {"Group", "User"})
    IN  [k \in DOMAIN kept |->
            [principal_type |-> KindOf(kept[k]), identifier |-> kept[k],
             name |-> MemberName(kept[k])]]

\* each member recorded, then its MEMBER_OF relationship to the group
RECURSIVE RecordMembers(_, _, _)
RecordMembers(d, identifier, members) ==
    IF members = <<>> THEN d
    ELSE LET m == Head(members)
             withNode == merge_record(d, m.principal_type, m.identifier,
                                      m.name)
         IN  RecordMembers(
                 merge_member_record(withNode, identifier, m.principal_type,
                                     m.identifier),
                 identifier, Tail(members))

\* expandMembers(group, visited): the group is added to visited, its members
\* are fetched and recorded, and its member groups not in visited are left to
\* expand next
ExpandGroup ==
    /\ pc = "expand"
    /\ stack # <<>>
    /\ Head(stack) \notin visited
    /\ LET g == Head(stack)
           members == fetch_members(g)
           nested == SelectSeq(members,
                         LAMBDA m : /\ m.principal_type = "Group"
                                    /\ m.identifier \notin visited \cup {g})
       IN  /\ visited' = visited \cup {g}
           /\ expansions' = Append(expansions, g)
           /\ db' = RecordMembers(db, g, members)
           /\ stack' = [k \in DOMAIN nested |-> nested[k].identifier]
                           \o Tail(stack)
    /\ UNCHANGED <<directory, writers, source, run, pc, idx, abortCause,
                   memory, history, after1>>

\* a member group reached again after it was expanded is not expanded again
SkipVisited ==
    /\ pc = "expand"
    /\ stack # <<>>
    /\ Head(stack) \in visited
    /\ stack' = Tail(stack)
    /\ UNCHANGED <<directory, visited, expansions, db, writers, source, run,
                   pc, idx, abortCause, memory, history, after1>>

ExpandNext == ExpandGroup \/ SkipVisited

\* the root group is recorded; the directory lists any members for any group
ExpandInit ==
    /\ NoRun
    /\ NoCalls
    /\ pc = "expand"
    /\ directory \in [GroupIds -> SUBSET MemberIds]
    /\ stack = <<RootGroup>>
    /\ visited = {}
    /\ expansions = <<>>
    /\ db = merge_record([EmptyDb EXCEPT !.constraints =
                             {SUBSCRIPTION, GROUP, USER}],
                         "Group", RootGroup, MemberName(RootGroup))

ExpandSpec == ExpandInit /\ [][ExpandNext]_vars

----------------------------------------------------------------------------
(* Vocabulary of the properties *)

\* the source assignments whose principal is a User or a Group
Recognized == {r \in srcAssignments : r.principal_type \in {"User", "Group"}}

LabelOf(r) == IF r.principal_type = "Group" THEN GROUP ELSE USER

\* the nodes of the store that are the principal of source assignment r
PrincipalNodes(r) ==
    {i \in DOMAIN db.nodes :
        db.nodes[i].label = LabelOf(r) /\ db.nodes[i].id = r.principal_id}

\* the ASSIGNMENT edges of the store that record source assignment r: from its
\* subscription to its principal, with its id and its role definition
AssignmentEdges(r) ==
    {k \in DOMAIN db.edges :
        /\ db.edges[k].type = ASSIGNMENT
        /\ db.edges[k].id = r.id
        /\ db.edges[k].role_id = r.role_definition_id
        /\ db.nodes[db.edges[k].src].label = SUBSCRIPTION
        /\ db.nodes[db.edges[k].src].id = SubscriptionPath(r.sub)
        /\ db.edges[k].dst \in PrincipalNodes(r)}

\* the ASSIGNMENT edges into the principal of r
EdgesInto(r) ==
    {k \in DOMAIN db.edges :
        db.edges[k].type = ASSIGNMENT /\ db.edges[k].dst \in PrincipalNodes(r)}

SamePrincipal(a, b) ==
    a.principal_id = b.principal_id /\ a.principal_type = b.principal_type

Done(stage) == \E k \in DOMAIN stagesDone : stagesDone[k] = stage

----------------------------------------------------------------------------
(* Properties *)

\* C1: idempotence of the full sync. With the sources fixed, the second run
\* of main() creates no node and no edge and changes no property: at every
\* point of the second run the store's nodes and edges are those the first
\* run left.
C1_SecondRunChangesNothing ==
    run = 2 => db.nodes = after1.nodes /\ db.edges = after1.edges

\* C1 witness: the second run has completed on a store the first run filled
\* with nodes and named edges
C1_Witness ==
    /\ run = 2 /\ pc = "done"
    /\ Len(db.edges) >= 2
    /\ \A k \in DOMAIN db.edges : db.edges[k].role_name # Absent

\* C2: principal dedup. When two assignments of two different subscriptions
\* reference the same (type, id), the store after the run holds exactly one
\* node for the principal, one ASSIGNMENT edge for each of the two, from its
\* own subscription, and no ASSIGNMENT edge into the node beyond one per
\* distinct assignment that references it.
C2_PrincipalDedup ==
    pc = "done" =>
        \A a \in Recognized : \A b \in Recognized :
            (a.sub # b.sub /\ SamePrincipal(a, b)) =>
                /\ Cardinality(PrincipalNodes(a)) = 1
                /\ Cardinality(AssignmentEdges(a)) = 1
                /\ Cardinality(AssignmentEdges(b)) = 1
                /\ AssignmentEdges(a) \cap AssignmentEdges(b) = {}
                /\ Cardinality(EdgesInto(a)) =
                       Cardinality({<<r.sub, r.id, r.role_definition_id>> :
                           r \in {x \in Recognized : SamePrincipal(x, a)}})

\* C2 witness: a completed run over two subscriptions that assign the same
\* principal, with two edges into its node
C2_Witness ==
    /\ pc = "done"
    /\ \E a \in Recognized : \E b \in Recognized :
          /\ a.sub # b.sub /\ SamePrincipal(a, b)
          /\ Cardinality(EdgesInto(a)) = 2

\* C3: assignment edge distinctness. Two assignments with the same id and
\* different role definitions, between the same subscription and principal,
\* are two distinct edges from the moment the assignments are recorded, and
\* after the role names are set each of the two carries the name of its own
\* role definition.
C3_EdgeDistinctness ==
    \A a \in Recognized : \A b \in Recognized :
        (/\ a.sub = b.sub /\ SamePrincipal(a, b)
         /\ a.id = b.id /\ a.role_definition_id # b.role_definition_id) =>
            /\ (Done("record_assignments") \/ pc = "done") =>
                   /\ Cardinality(AssignmentEdges(a)) = 1
                   /\ Cardinality(AssignmentEdges(b)) = 1
                   /\ AssignmentEdges(a) \cap AssignmentEdges(b) = {}
            /\ pc = "done" =>
                   \A k \in AssignmentEdges(a) :
                       db.edges[k].role_name = RoleNameOf(a.role_definition_id)

\* C3 witness: the role names have been set on two edges with the same id and
\* different role definitions
C3_Witness ==
    /\ pc = "done"
    /\ \E a \in Recognized : \E b \in Recognized :
          /\ a.sub = b.sub /\ SamePrincipal(a, b)
          /\ a.id = b.id /\ a.role_definition_id # b.role_definition_id
          /\ \E i \in AssignmentEdges(a) : \E j \in AssignmentEdges(b) :
                db.edges[i].role_name # db.edges[j].role_name

\* the place of a writing stage in the order the specification gives
WriteRank(stage) ==
    CASE stage = "record_subscriptions" -> 1
      [] stage \in {"record_groups", "record_users"} -> 2
      [] stage = "record_assignments" -> 3
      [] stage = "update_role_name_records" -> 4
      [] OTHER -> 0

\* C4: write ordering. Every ASSIGNMENT edge a run has written has its
\* subscription node and its principal node written earlier in that run, and
\* the writing stages complete in the order subscriptions, principals
\* (groups, users), assignment edges, role names, each once.
C4_WriteOrdering ==
    /\ \A e \in edgesWritten :
          /\ [label |-> SUBSCRIPTION, id |-> e.sub] \in nodesWritten
          /\ [label |-> e.label, id |-> e.principal] \in nodesWritten
    /\ edgesWritten # {} =>
          Done("record_subscriptions") /\ Done("record_groups")
              /\ Done("record_users")
    /\ \A i \in DOMAIN stagesDone : \A j \in DOMAIN stagesDone :
          (i < j /\ WriteRank(stagesDone[i]) > 0
                 /\ WriteRank(stagesDone[j]) > 0) =>
              /\ WriteRank(stagesDone[i]) <= WriteRank(stagesDone[j])
              /\ stagesDone[i] # stagesDone[j]

\* C4 witness: a run has written assignment edges and set their role names
C4_Witness ==
    /\ edgesWritten # {}
    /\ Done("update_role_name_records")

\* C6: a NotFound of the directory lookup of one principal's display name does
\* not abort the run: the run completes, and the principal's node is written
\* with an empty name.
C6_NameNotFoundIsRecoverable ==
    /\ abortCause # "name_not_found"
    /\ (fault.kind = "name" /\ pc = "done") =>
          \A r \in Recognized :
              r.principal_id = fault.unit =>
                  \E i \in PrincipalNodes(r) : db.nodes[i].name = ""

\* C7: a failure of the assignment listing of one subscription does not abort
\* the run: the run completes, with the assignments of the other
\* subscriptions written.
C7_ListFailureIsNotFatal ==
    /\ abortCause # "list_failed"
    /\ (fault.kind = "list" /\ pc = "done") =>
          \A r \in Recognized :
              r.sub # fault.unit => AssignmentEdges(r) # {}

\* C8: unrecognized-type drop. An assignment whose principal type is neither
\* User nor Group is not kept in the run's assignments, no node and no
\* ASSIGNMENT edge of the store stems from it, its principal and its role are
\* never looked up (so no failure of such a lookup ends the run), and a run
\* that completes has written the edge of every assignment with a recognized
\* type.
C8_UnrecognizedDropped ==
    /\ \A k \in DOMAIN assignments :
          \E r \in Recognized : assignments[k] =
              [id |-> r.id, subscription_id |-> SubscriptionPath(r.sub),
               role_id |-> r.role_definition_id,
               principal_id |-> r.principal_id,
               principal_type |-> r.principal_type,
               role_name |-> assignments[k].role_name]
    /\ \A i \in DOMAIN db.nodes :
          db.nodes[i].label # SUBSCRIPTION =>
              \E r \in Recognized : i \in PrincipalNodes(r)
    /\ \A k \in DOMAIN db.edges :
          \E r \in Recognized : k \in AssignmentEdges(r)
    /\ abortCause = "name_not_found" =>
          \E r \in Recognized : r.principal_id = fault.unit
    /\ abortCause = "role_not_found" =>
          \E r \in Recognized : r.role_definition_id = fault.unit
    /\ pc = "done" => \A r \in Recognized : AssignmentEdges(r) # {}

\* C8 witness: a run has completed and written an edge although the source
\* holds an assignment to a service principal
C8_Witness ==
    /\ pc = "done"
    /\ \E r \in srcAssignments : r.principal_type = "ServicePrincipal"
    /\ db.edges # <<>>

\* what a run has kept of source assignment r, once the listing is complete
KeptAs(r) ==
    {assignments[k].principal_type :
        k \in {j \in DOMAIN assignments :
                  /\ assignments[j].id = r.id
                  /\ assignments[j].principal_id = r.principal_id
                  /\ assignments[j].principal_type = r.principal_type}}

\* C9 as amended: principal type resolution is a case-sensitive exact match.
\* Once the listing is complete an assignment is kept, and resolved to User,
\* exactly when its tag is "User", kept and resolved to Group exactly when
\* its tag is "Group", and dropped for every other tag, "group", "GROUP" and
\* "user" included.
C9_CaseSensitiveResolution ==
    Done("build_assignment_relations") =>
        \A r \in srcAssignments :
            /\ r.principal_type = "User" =>
                   KeptAs(r) # {} /\ principal_node_type(r.principal_type) = USER
            /\ r.principal_type = "Group" =>
                   KeptAs(r) # {} /\ principal_node_type(r.principal_type) = GROUP
            /\ r.principal_type \notin {"User", "Group"} =>
                   KeptAs(r) = {} /\ principal_node_type(r.principal_type) = Absent
            /\ fetch_assignments_keeps(r.principal_type) <=>
                   r.principal_type \in {"User", "Group"}

\* C9 witness: the listing is complete over a source that spells the Group tag
\* in two ways
C9_Witness ==
    /\ Done("build_assignment_relations")
    /\ \E a \in srcAssignments : \E b \in srcAssignments :
          /\ a.principal_type = "Group" /\ b.principal_type = "GROUP"
          /\ KeptAs(a) # {} /\ KeptAs(b) = {}

\* C9 as stated: the match ignores case, so "group" and "GROUP" are kept as
\* Group and "user" as User.
C9_CaseInsensitiveResolution ==
    Done("build_assignment_relations") =>
        \A r \in srcAssignments :
            /\ Lower(r.principal_type) = "user" =>
                   KeptAs(r) # {} /\ principal_node_type(r.principal_type) = USER
            /\ Lower(r.principal_type) = "group" =>
                   KeptAs(r) # {} /\ principal_node_type(r.principal_type) = GROUP
            /\ Lower(r.principal_type) \notin {"user", "group"} =>
                   KeptAs(r) = {}

\* C10: upsertPrincipal merges by (type, id) alone. No upsert of a principal
\* fails, whatever name the principal was written with before, and the store
\* never holds two nodes of one type with one id.
C10_UpsertByTypeAndId ==
    /\ lastCall.failed = FALSE
    /\ \A label \in {GROUP, USER} : \A id \in PrincipalIds :
          Cardinality(MatchNode(db, label, id)) <= 1

\* the groups reached from the root through member groups
RECURSIVE ReachedFrom(_)
ReachedFrom(G) ==
    LET more == G \cup {m \in GroupIds : \E g \in G : m \in directory[g]}
    IN  IF more = G THEN G ELSE ReachedFrom(more)

\* the MEMBER_OF edges of the store from principal m to group g
MemberEdges(m, g) ==
    {k \in DOMAIN db.edges :
        /\ db.edges[k].type = MEMBER_OF
        /\ db.nodes[db.edges[k].src].id = m
        /\ db.nodes[db.edges[k].src].label = upper(KindOf(m))
        /\ db.nodes[db.edges[k].dst].id = g
        /\ db.nodes[db.edges[k].dst].label = GROUP}

\* the (member, group) pairs the expansion from the root has to record
Memberships ==
    {p \in {m \in MemberIds : KindOf(m) \in {"Group", "User"}} \X GroupIds :
        p[2] \in ReachedFrom({RootGroup}) /\ p[1] \in directory[p[2]]}

\* while a group is left on the stack a step can be taken; no group is
\* expanded twice, no membership is recorded twice, and when the expansion has
\* ended the expanded groups are those reached from the root and
\* the MEMBER_OF edges are the memberships of those groups, once each
ExpansionSafe ==
    /\ stack # <<>> => pc = "expand" /\ Head(stack) \in DOMAIN directory
    /\ \A i \in DOMAIN expansions : \A j \in DOMAIN expansions :
          i # j => expansions[i] # expansions[j]
    /\ \A m \in MemberIds : \A g \in GroupIds :
          Cardinality(MemberEdges(m, g)) <= 1
    /\ stack = <<>> =>
          /\ {expansions[i] : i \in DOMAIN expansions} = ReachedFrom({RootGroup})
          /\ \A p \in Memberships : Cardinality(MemberEdges(p[1], p[2])) = 1
          /\ Cardinality({k \in DOMAIN db.edges :
                             db.edges[k].type = MEMBER_OF})
                 = Cardinality(Memberships)

\* what is left of an expansion: the groups not yet visited, each of which
\* may put the other groups on the stack once, and the stack
ExpansionMeasure ==
    Cardinality(GroupIds \ visited) * (Cardinality(GroupIds) + 1) + Len(stack)

====
